---- MODULE Spec2Model ----
(***************************************************************************)
(* Model of android-screen-grabber.py: one AndroidScreenshotTool session   *)
(* driven by main(), either in single-shot mode or in the interactive      *)
(* read/dispatch loop.  Text is modelled as sequences of one-character     *)
(* strings so that stripping, lowering, sanitising and file-name           *)
(* collisions are computed, not assumed.  Every external adb invocation    *)
(* is an input of the action that makes it: it exits zero ("ok"), exits    *)
(* non-zero (CalledProcessError) or cannot be started because the binary   *)
(* is missing (FileNotFoundError); the check and the capture steps, whose   *)
(* callers do not swallow it, can also be interrupted (KeyboardInterrupt). *)
(***************************************************************************)
EXTENDS Naturals, Integers, Sequences, FiniteSets, TLC

\* ------------------------------------------------------------------ bounds
MaxReads == 2       \* lines read by the interactive loop in one session
MaxTicks == 1       \* seconds the wall clock may advance during a session
StartClock == 43199 \* seconds after 2024-01-01 00:00:00 at process start

\* -------------------------------------------------------------- characters
Whitespace == {" ", "\t"}
DigitChars == <<"0", "1", "2", "3", "4", "5", "6", "7", "8", "9">>
UpperCase == {"Q", "I", "L", "P"}
LowerCase == {"q", "i", "l", "p", "a", "b", "o", "g", "n", "e"}
AlnumChars == UpperCase \cup LowerCase \cup {DigitChars[k] : k \in 1..10}

\* str.isalnum() on one character
isalnum(c) == c \in AlnumChars

\* str.lower() on one character, then on a string
LowerChar(c) ==
  IF c = "Q" THEN "q" ELSE IF c = "I" THEN "i" ELSE IF c = "L" THEN "l"
  ELSE IF c = "P" THEN "p" ELSE c

lower(s) == [k \in 1..Len(s) |-> LowerChar(s[k])]

\* str.strip(): drop leading and trailing whitespace
RECURSIVE lstrip(_)
lstrip(s) ==
  IF s # <<>> /\ Head(s) \in Whitespace THEN lstrip(Tail(s)) ELSE s

RECURSIVE rstrip(_)
rstrip(s) ==
  IF s # <<>> /\ s[Len(s)] \in Whitespace
  THEN rstrip(SubSeq(s, 1, Len(s) - 1)) ELSE s

strip(s) == rstrip(lstrip(s))

\* str.replace(sub, ''): remove every occurrence of sub, left to right
RECURSIVE RemoveAll(_, _)
RemoveAll(s, sub) ==
  IF Len(s) < Len(sub) \/ sub = <<>> THEN s
  ELSE IF SubSeq(s, 1, Len(sub)) = sub
       THEN RemoveAll(SubSeq(s, Len(sub) + 1, Len(s)), sub)
       ELSE <<Head(s)>> \o RemoveAll(Tail(s), sub)

\* decimal digits of n, most significant first
RECURSIVE Decimal(_)
Decimal(n) ==
  IF n < 10 THEN <<DigitChars[n + 1]>>
  ELSE Decimal(n \div 10) \o <<DigitChars[(n % 10) + 1]>>

\* format(n, "0Wd"): zero-padded to at least w digits
RECURSIVE ZeroPad(_, _)
ZeroPad(d, w) == IF Len(d) >= w THEN d ELSE ZeroPad(<<"0">> \o d, w)

\* datetime.now().strftime("%Y%m%d_%H%M%S") for a clock counted in seconds
\* from 2024-01-01 00:00:00 (the clock of the model stays inside that day)
strftime(t) ==
  <<"2", "0", "2", "4", "0", "1", "0", "1", "_">>
    \o ZeroPad(Decimal((t \div 3600) % 24), 2)
    \o ZeroPad(Decimal((t \div 60) % 60), 2)
    \o ZeroPad(Decimal(t % 60), 2)

PngSuffix == <<".", "p", "n", "g">>
AutoPrefix == <<"s", "c", "r", "e", "e", "n", "s", "h", "o", "t", "_">>

\* ------------------------------------------------------------------ inputs
\* what one adb invocation can do
StepOutcomes == {"ok", "nonzero", "missing", "interrupt"}
\* a getprop invocation of get_device_info
InfoOutcomes == {"ok", "nonzero", "missing"}
\* `adb devices`: a device line, no device line, or a failing invocation
CheckOutcomes == {"device", "nodevice", "nonzero", "missing", "interrupt"}
\* `adb shell wm size`: a failing invocation, or output without the label,
\* with the label and an unparsable value, or with the label and WxH
SizeOutputs == {<<"missing">>, <<"nolabel">>, <<"ok", 1080, 2400>>}
\* `adb shell wm density`, likewise; a density of 0 divides by zero
DensityOutputs == {<<"nonzero">>, <<"bad">>, <<"ok", 0>>, <<"ok", 420>>}

\* lines typed at the prompt
InputLines ==
  { <<"q">>, <<" ", "Q">>, <<"i">>, <<"I", " ">>, <<>>, <<" ">>,
    <<"\t", "a", " ", "b", " ">>,
    <<"L", "o", "g", "i", "n", " ", "P", "a", "g", "e", "!">> }

\* --single and --name values; <<>> stands for an absent (or empty) option,
\* which main() cannot tell apart
CommandLines ==
  { [single |-> <<>>, name |-> <<>>],
    [single |-> <<"a", ".", "p", "n", "g">>, name |-> <<>>],
    [single |-> <<".", "p", "n", "g">>, name |-> <<>>],
    [single |-> <<"a", " ", "b">>, name |-> <<"a", "_", "b">>] }

VARIABLES
  pc,               \* "main", "await" (input prompt) or "exited"
  args,             \* parsed command line: [single, name]
  exit_status,      \* process exit status once pc = "exited"
  connected,        \* the check_adb_connection call: what `adb devices` did
                    \* and what the call returned ("none" before it ran)
  screenshot_count, \* self.screenshot_count
  files,            \* files of the output directory written by the session
  device_temp,      \* /sdcard/screenshot_temp.png exists on the device
  clock,            \* wall clock in seconds
  last,             \* the last capture_screenshot call
  info,             \* the last display_device_info call
  user_input,       \* the last line read at the prompt, stripped
  summary,          \* counts printed by the "Done! Captured N" summary
  nRead,            \* lines read
  nInfo,            \* display_device_info calls
  nCalls,           \* capture_screenshot calls started
  nTrue             \* capture_screenshot calls that returned True

vars == <<pc, args, exit_status, connected, screenshot_count, files,
          device_temp, clock, last, info, user_input, summary, nRead, nInfo,
          nCalls, nTrue>>

NoCapture ==
  [screen_name |-> <<>>, timestamp |-> <<>>, filename |-> <<>>,
   count_before |-> 0, trace |-> <<>>, result |-> "none"]

NoInfo ==
  [device |-> <<>>, display |-> <<>>, dev_failed |-> FALSE,
   disp_failed |-> FALSE]

Init ==
  /\ pc = "main"
  /\ args \in CommandLines
  /\ exit_status = 0
  /\ connected = [outcome |-> "none", result |-> "none"]
  /\ screenshot_count = 0
  /\ files = {}
  /\ device_temp = FALSE
  /\ clock = StartClock
  /\ last = NoCapture
  /\ info = NoInfo
  /\ user_input = <<>>
  /\ summary = <<>>
  /\ nRead = 0
  /\ nInfo = 0
  /\ nCalls = 0
  /\ nTrue = 0
\* ---------------------------------------------------------- the operations
\* check_adb_connection: True only when a device line is listed; a missing
\* binary and a non-zero exit are caught and give False; nothing else is
\* caught
check_adb_connection(oc) ==
  IF oc = "device" THEN "true"
  ELSE IF oc = "interrupt" THEN "KeyboardInterrupt"
  ELSE "false"

\* get_device_info: both getprop calls must succeed; the bare except turns
\* every exception into the default pair
get_device_info(om, ov) ==
  IF om = "ok" /\ ov = "ok" THEN <<"Pixel 7", "14">>
  ELSE <<"Unknown", "Unknown">>

\* math.ceil(n / d) for positive d
CeilDiv(n, d) == (n + d - 1) \div d

\* get_display_info: <<>> is None; otherwise
\* <<width, height, dp_width, dp_height, density>>.  The dp sizes are
\* ceil(px / (density / 160)), computed here in exact arithmetic.
get_display_info(sz, dn) ==
  IF sz[1] # "ok" THEN <<>>
  ELSE IF dn[1] # "ok" THEN <<>>
  ELSE IF dn[2] = 0 THEN <<>>
  ELSE <<sz[2], sz[3], CeilDiv(sz[2] * 160, dn[2]),
         CeilDiv(sz[3] * 160, dn[2]), dn[2]>>

\* display_device_info: one device query and one display query
display_device_info(om, ov, sz, dn) ==
  /\ nInfo' = nInfo + 1
  /\ info' = [device |-> get_device_info(om, ov),
              display |-> get_display_info(sz, dn),
              dev_failed |-> (om \in {"nonzero", "missing"}
                              \/ (om = "ok" /\ ov \in {"nonzero", "missing"})),
              disp_failed |->
                 (sz[1] \in {"nonzero", "missing", "nolabel", "bad"}
                  \/ (sz[1] = "ok"
                      /\ dn[1] \in {"nonzero", "missing", "nolabel", "bad"}))]

\* a sanitiser that replaces whitespace only
clean_name_SpacesOnly(screen_name) ==
  [k \in 1..Len(screen_name) |->
     IF screen_name[k] \in Whitespace THEN "_" ELSE screen_name[k]]

\* the sanitiser of capture_screenshot
clean_name(screen_name) ==
  [k \in 1..Len(screen_name) |->
     IF isalnum(screen_name[k]) \/ screen_name[k] \in {"-", "_"}
     THEN screen_name[k] ELSE "_"]

\* the file name of a capture; count is the counter after its increment
FileName(screen_name, count, timestamp) ==
  IF screen_name # <<>>
  THEN clean_name(screen_name) \o <<"_">> \o timestamp \o PngSuffix
  ELSE AutoPrefix \o ZeroPad(Decimal(count), 3) \o <<"_">> \o timestamp
         \o PngSuffix

\* a counter that is never advanced
CountAfterCapture_Forgotten(count) == count

\* self.screenshot_count += 1
CountAfterCapture(count) == count + 1

\* a try block that removes the device file even when the pull failed
StepsRun_AlwaysCleanup(o1, o2, o3) ==
  IF o1 # "ok" THEN <<[cmd |-> "screencap", exit |-> o1]>>
  ELSE <<[cmd |-> "screencap", exit |-> o1],
         [cmd |-> "pull", exit |-> o2],
         [cmd |-> "rm", exit |-> o3]>>

\* the adb invocations of the try block, in program order, each with its
\* outcome: an invocation that does not exit zero raises and ends the block
StepsRun(o1, o2, o3) ==
  IF o1 # "ok" THEN <<[cmd |-> "screencap", exit |-> o1]>>
  ELSE IF o2 # "ok"
       THEN <<[cmd |-> "screencap", exit |-> o1],
              [cmd |-> "pull", exit |-> o2]>>
       ELSE <<[cmd |-> "screencap", exit |-> o1],
              [cmd |-> "pull", exit |-> o2],
              [cmd |-> "rm", exit |-> o3]>>

\* a call that reports success as soon as the file was pulled
CaptureReturn_IgnoreCleanup(trace) ==
  LET e == trace[Len(trace)].exit IN
  IF e = "ok" \/ (Len(trace) = 3 /\ e = "nonzero") THEN "true"
  ELSE IF e = "nonzero" THEN "false"
  ELSE IF e = "missing" THEN "FileNotFoundError"
  ELSE "KeyboardInterrupt"

\* how the call ends: True after three zero exits, False after a
\* CalledProcessError (the only exception caught), otherwise the exception
CaptureReturn(trace) ==
  LET e == trace[Len(trace)].exit IN
  IF e = "ok" THEN "true"
  ELSE IF e = "nonzero" THEN "false"
  ELSE IF e = "missing" THEN "FileNotFoundError"
  ELSE "KeyboardInterrupt"

Ran(trace, c) == \E k \in 1..Len(trace) : trace[k].cmd = c
RanOk(trace, c) ==
  \E k \in 1..Len(trace) : trace[k].cmd = c /\ trace[k].exit = "ok"

\* capture_screenshot(screen_name); <<>> is the absent name
capture_screenshot(screen_name, o1, o2, o3) ==
  LET timestamp == strftime(clock)
      count == CountAfterCapture(screenshot_count)
      filename == FileName(screen_name, count, timestamp)
      trace == StepsRun(o1, o2, o3)
      result == CaptureReturn(trace)
  IN /\ screenshot_count' = count
     /\ nCalls' = nCalls + 1
     /\ nTrue' = IF result = "true" THEN nTrue + 1 ELSE nTrue
     /\ files' = IF RanOk(trace, "pull")
                 THEN {f \in files : f.name # filename}
                        \cup {[name |-> filename, by |-> nCalls + 1]}
                 ELSE files
     /\ device_temp' = IF RanOk(trace, "rm") THEN FALSE
                       ELSE IF RanOk(trace, "screencap") THEN TRUE
                       ELSE device_temp
     /\ last' = [screen_name |-> screen_name, timestamp |-> timestamp,
                 filename |-> filename, count_before |-> screenshot_count,
                 trace |-> trace, result |-> result]

CaptureVars == <<screenshot_count, nCalls, nTrue, files, device_temp, last>>

\* the exit status of the process when the call result r ends it: 0 after a
\* return, the interpreter's status for an uncaught exception otherwise
StatusAfter(r) ==
  IF r \in {"true", "false"} THEN 0
  ELSE IF r = "KeyboardInterrupt" THEN 130 ELSE 1

\* main(), --single given: check, then one capture
MainSingle(oc, o1, o2, o3) ==
  /\ pc = "main"
  /\ args.single # <<>>
  /\ connected' = [outcome |-> oc, result |-> check_adb_connection(oc)]
  /\ IF connected'.result = "true"
     THEN /\ capture_screenshot(
               IF args.name # <<>> THEN args.name
               ELSE RemoveAll(args.single, PngSuffix), o1, o2, o3)
          /\ exit_status' = StatusAfter(last'.result)
     ELSE /\ UNCHANGED CaptureVars
          /\ exit_status' = IF connected'.result = "false" THEN 1 ELSE 130
  /\ pc' = "exited"
  /\ UNCHANGED <<args, clock, info, user_input, summary, nRead, nInfo>>

\* a session that goes on whatever the check returned
ProceedAfterCheck_NoReturn(r) == r \in {"true", "false"}

\* `if not self.check_adb_connection(): return` of run_interactive
ProceedAfterCheck(r) == r = "true"

\* main(), no --single: run_interactive up to its first prompt
MainInteractive(oc, om, ov, sz, dn) ==
  /\ pc = "main"
  /\ args.single = <<>>
  /\ connected' = [outcome |-> oc, result |-> check_adb_connection(oc)]
  /\ IF connected'.result = "KeyboardInterrupt"
     THEN /\ pc' = "exited"
          /\ exit_status' = 130
          /\ UNCHANGED <<info, nInfo>>
     ELSE IF ProceedAfterCheck(connected'.result)
     THEN /\ display_device_info(om, ov, sz, dn)
          /\ pc' = "await"
          /\ UNCHANGED exit_status
     ELSE /\ pc' = "exited"
          /\ exit_status' = 0
          /\ UNCHANGED <<info, nInfo>>
  /\ UNCHANGED <<args, clock, user_input, summary, nRead>>
  /\ UNCHANGED CaptureVars

\* the if/elif chain of the loop on the stripped input
Command(text) ==
  IF lower(text) = <<"q">> THEN "quit"
  ELSE IF lower(text) = <<"i">> THEN "info"
  ELSE IF text = <<>> THEN "auto"
  ELSE "named"

\* "Done! Captured {self.screenshot_count} screenshots"
PrintSummary == summary' = Append(summary, screenshot_count')

\* a line that quits
ReadQuit(l) ==
  /\ pc = "await"
  /\ nRead < MaxReads
  /\ Command(strip(l)) = "quit"
  /\ user_input' = strip(l)
  /\ nRead' = nRead + 1
  /\ UNCHANGED CaptureVars
  /\ PrintSummary
  /\ pc' = "exited"
  /\ exit_status' = 0
  /\ UNCHANGED <<args, connected, clock, info, nInfo>>

\* a line that reprints the device information
ReadInfo(l, om, ov, sz, dn) ==
  /\ pc = "await"
  /\ nRead < MaxReads
  /\ Command(strip(l)) = "info"
  /\ user_input' = strip(l)
  /\ nRead' = nRead + 1
  /\ display_device_info(om, ov, sz, dn)
  /\ UNCHANGED CaptureVars
  /\ UNCHANGED <<pc, args, exit_status, connected, clock, summary>>

\* a line that captures, unnamed or named by the stripped text
ReadCapture(l, o1, o2, o3) ==
  /\ pc = "await"
  /\ nRead < MaxReads
  /\ Command(strip(l)) \in {"auto", "named"}
  /\ user_input' = strip(l)
  /\ nRead' = nRead + 1
  /\ capture_screenshot(
       IF Command(strip(l)) = "auto" THEN <<>> ELSE strip(l), o1, o2, o3)
  /\ IF last'.result \in {"true", "false"}
     THEN UNCHANGED <<pc, exit_status, summary>>
     ELSE IF last'.result = "KeyboardInterrupt"
     THEN /\ PrintSummary
          /\ pc' = "exited"
          /\ exit_status' = 0
     ELSE /\ pc' = "exited"
          /\ exit_status' = StatusAfter(last'.result)
          /\ UNCHANGED summary
  /\ UNCHANGED <<args, connected, clock, info, nInfo>>

\* KeyboardInterrupt raised by input(): caught, same summary as quit
ReadInterrupt ==
  /\ pc = "await"
  /\ UNCHANGED CaptureVars
  /\ PrintSummary
  /\ pc' = "exited"
  /\ exit_status' = 0
  /\ UNCHANGED <<args, connected, clock, info, user_input, nRead, nInfo>>

\* EOFError raised by input() at end of input: not caught
ReadEOF ==
  /\ pc = "await"
  /\ pc' = "exited"
  /\ exit_status' = 1
  /\ UNCHANGED CaptureVars
  /\ UNCHANGED <<args, connected, clock, info, user_input, summary, nRead, nInfo>>

\* a second passes on the wall clock read by datetime.now()
Tick ==
  /\ pc # "exited"
  /\ clock < StartClock + MaxTicks
  /\ clock' = clock + 1
  /\ UNCHANGED CaptureVars
  /\ UNCHANGED <<pc, args, exit_status, connected, info, user_input, summary,
                 nRead, nInfo>>

Next ==
  \/ \E oc \in CheckOutcomes, o1, o2, o3 \in StepOutcomes :
       MainSingle(oc, o1, o2, o3)
  \/ \E oc \in CheckOutcomes, om, ov \in InfoOutcomes,
        sz \in SizeOutputs, dn \in DensityOutputs :
       MainInteractive(oc, om, ov, sz, dn)
  \/ \E l \in InputLines : ReadQuit(l)
  \/ \E l \in InputLines, om, ov \in InfoOutcomes,
        sz \in SizeOutputs, dn \in DensityOutputs :
       ReadInfo(l, om, ov, sz, dn)
  \/ \E l \in InputLines, o1, o2, o3 \in StepOutcomes :
       ReadCapture(l, o1, o2, o3)
  \/ ReadInterrupt
  \/ ReadEOF
  \/ Tick

Spec == Init /\ [][Next]_vars

TypeOK ==
  /\ pc \in {"main", "await", "exited"}
  /\ screenshot_count \in Nat
  /\ nRead \in 0..MaxReads
\* ------------------------------------------------------------ the claims
ExitsOf(trace) == {trace[k].exit : k \in 1..Len(trace)}
ExitOf(trace, c) ==
  {trace[k].exit : k \in {j \in 1..Len(trace) : trace[j].cmd = c}}
CaptureSteps == <<"screencap", "pull", "rm">>
LoginPage == <<"L", "o", "g", "i", "n", " ", "P", "a", "g", "e", "!">>
Login_Page_ == <<"L", "o", "g", "i", "n", "_", "P", "a", "g", "e", "_">>

\* C1: whenever the summary has been printed (after 'q' or an interrupt at
\* the prompt), the count it printed is the number of capture_screenshot
\* calls that saved a file and returned True.
C1_SummaryCountsSaved ==
  last.result # "KeyboardInterrupt" =>
    \A k \in 1..Len(summary) : summary[k] = nTrue

\* C2: the screenshot counter equals the number of capture_screenshot calls
\* started so far; the last call, named or not, successful or not, moved it
\* up by exactly one, and nothing else moves it.
C2_CounterCountsCalls ==
  /\ screenshot_count = nCalls
  /\ last.result = "none" => screenshot_count = 0
  /\ last.result # "none" => screenshot_count = last.count_before + 1

C2_Witness ==
  /\ nCalls = 2
  /\ nInfo = 1
  /\ last.screen_name # <<>>
  /\ last.result = "false"
  /\ pc = "await"

\* C3: the invocations of one capture are a prefix of screencap, pull, rm in
\* that order, an invocation is made only after every earlier one exited
\* zero, and after a failed pull no rm is made and the temporary file stays
\* on the device.
C3_StepsInOrder ==
  last.result # "none" =>
    /\ Len(last.trace) \in 1..3
    /\ \A k \in 1..Len(last.trace) :
         /\ last.trace[k].cmd = CaptureSteps[k]
         /\ \A j \in 1..(k - 1) : last.trace[j].exit = "ok"
    /\ (Ran(last.trace, "pull") /\ ~RanOk(last.trace, "pull")) =>
         (~Ran(last.trace, "rm") /\ device_temp)

C3_Witness ==
  /\ ExitOf(last.trace, "screencap") = {"ok"}
  /\ ExitOf(last.trace, "pull") = {"nonzero"}
  /\ device_temp

C5_FailuresAreReturned ==
  /\ connected.outcome \in {"nodevice", "nonzero", "missing"} =>
       connected.result = "false"
  /\ info.dev_failed => info.device = <<"Unknown", "Unknown">>
  /\ info.disp_failed => info.display = <<>>
  /\ (ExitsOf(last.trace) \cap {"nonzero", "missing"} # {}) =>
       last.result = "false"

\* C6: the number of distinct files the session has written to the output
\* directory equals the number of capture_screenshot calls that returned
\* True.
C6_OneFilePerSuccess ==
  Cardinality({f.name : f \in files}) = nTrue

\* C7: when the check of run_interactive returned False the session is
\* over with no info query, no line read, no capture, counter 0 and no
\* summary.
C7_FailedCheckAborts ==
  (args.single = <<>> /\ connected.result = "false") =>
    /\ pc = "exited"
    /\ nInfo = 0
    /\ info = NoInfo
    /\ nRead = 0
    /\ nCalls = 0
    /\ screenshot_count = 0
    /\ summary = <<>>

C7_Witness ==
  /\ args.single = <<>>
  /\ connected.outcome = "nodevice"
  /\ connected.result = "false"
  /\ pc = "exited"

\* C8: every line read triggers exactly one action chosen by the stripped
\* line: quit prints the summary and ends the loop; info reprints the
\* device information without a capture; the empty line makes one unnamed
\* capture and any other text one capture named by it; and after every
\* action but quit the loop is back at the prompt, unless an interrupt
\* ended it with the summary.
C8_OneActionPerLine ==
  [][ (pc = "await" /\ nRead' = nRead + 1) =>
        LET c == Command(user_input')
            AtPrompt == pc' = "await" /\ summary' = summary
        IN /\ c = "quit" =>
                /\ pc' = "exited"
                /\ summary' = Append(summary, screenshot_count)
                /\ nCalls' = nCalls /\ nInfo' = nInfo
           /\ c = "info" =>
                /\ nInfo' = nInfo + 1 /\ nCalls' = nCalls
                /\ AtPrompt
           /\ c \in {"auto", "named"} =>
                /\ nCalls' = nCalls + 1 /\ nInfo' = nInfo
                /\ last'.screen_name =
                     (IF c = "auto" THEN <<>> ELSE user_input')
                /\ \/ AtPrompt
                   \/ /\ last'.result = "KeyboardInterrupt"
                      /\ pc' = "exited"
                      /\ summary' = Append(summary, screenshot_count')
    ]_vars

\* C9: the process exits non-zero exactly when the check failed in
\* single-shot mode, and then no capture was attempted; every other run
\* that no interrupt cut short exits 0.
C9_ExitStatus ==
  ( /\ pc = "exited"
    /\ connected.result # "KeyboardInterrupt"
    /\ last.result # "KeyboardInterrupt" ) =>
    /\ exit_status # 0 <=>
         (args.single # <<>> /\ connected.result = "false")
    /\ exit_status # 0 => nCalls = 0

====
